---- MODULE Spec2Model ----
(***************************************************************************)
(* WaniKani sentence extractor: the session loop of main.py, the           *)
(* conversation loop of AIAgent.start_conversation and the clipboard       *)
(* listener, as one sequential state machine.                              *)
(*                                                                         *)
(* A Python str is a sequence of one-character strings; a fixed piece of   *)
(* literal text that the program only concatenates (a prompt template, an  *)
(* HTML tag) is one element of the sequence, written as its own token.     *)
(* An Optional value is a record [isNone, val].                            *)
(***************************************************************************)
EXTENDS Naturals, Sequences, FiniteSets, TLC

VARIABLES
    pc,                \* where the single thread of main() stands
    exit_status,       \* None while running, else the process exit status
    enabled,           \* AIAgent.enabled (client is not None)
    img_fetcher,       \* main.img_fetcher is not None
    model,             \* AIAgent.model
    last,              \* ClipboardListener._last
    startup,           \* the clipboard content at startup until it is replaced or yielded
    clipboard_text,    \* main: the text the listener yielded
    jp_sentence,       \* main
    eng_sentence_auto, \* main
    history,           \* start_conversation: the dialogue list
    user_input,        \* start_conversation: the stripped line of the main prompt
    retry,             \* start_conversation: the answer to the retry prompt
    sent,              \* messages of the latest chat.completions.create call
    payload,           \* start_conversation: the keyword arguments of that call
    content,           \* start_conversation: the extracted text of the latest response
    calls,             \* chat.completions.create calls made by this conversation
    conv_result,       \* main: first component of start_conversation's result
    conv_history,      \* main: second component of start_conversation's result
    target_word,       \* main
    english_word,      \* main
    image_idea,        \* main
    eng_translation,   \* main
    image_filename,    \* main
    audio_filename,    \* main
    fields,            \* main: the note's field mapping
    effects,           \* kinds of I/O performed for the current clipboard event
    uploads,           \* store_media_file calls made for the current clipboard event
    submitted          \* add_note_to_anki calls made for the current clipboard event

vars == <<pc, exit_status, enabled, img_fetcher, model, last, startup, clipboard_text,
          jp_sentence, eng_sentence_auto, history, user_input, retry, sent, payload,
          content, calls, conv_result, conv_history, target_word, english_word,
          image_idea, eng_translation, image_filename, audio_filename,
          fields, effects, uploads, submitted>>

-----------------------------------------------------------------------------
(* Bounds *)

\* Longest dialogue history a conversation may build (entries, head included).
MaxHistory == 6

-----------------------------------------------------------------------------
(* Python values *)

None == [isNone |-> TRUE, val |-> <<>>]
Str(s) == [isNone |-> FALSE, val |-> s]
\* bool(x) of an Optional[str]
Truthy(x) == ~x.isNone /\ x.val # <<>>
\* str(x) as an f-string renders it
Format(x) == IF x.isNone THEN <<"N", "o", "n", "e">> ELSE x.val

Whitespace == {" ", "\n", "\t"}

RECURSIVE LStrip(_)
LStrip(s) ==
    IF s = <<>> THEN s
    ELSE IF Head(s) \in Whitespace THEN LStrip(Tail(s)) ELSE s

RECURSIVE RStrip(_)
RStrip(s) ==
    IF s = <<>> THEN s
    ELSE IF s[Len(s)] \in Whitespace THEN RStrip(SubSeq(s, 1, Len(s) - 1)) ELSE s

\* Variant: the text is left as it is.
StripOmitted(s) == s

\* str.strip()
Strip(s) == RStrip(LStrip(s))

LowerChar(c) ==
    CASE c = "A" -> "a" [] c = "E" -> "e" [] c = "G" -> "g" [] c = "I" -> "i"
      [] c = "K" -> "k" [] c = "M" -> "m" [] c = "N" -> "n" [] c = "O" -> "o"
      [] c = "P" -> "p"
      [] c = "Q" -> "q" [] c = "R" -> "r" [] c = "S" -> "s" [] c = "T" -> "t"
      [] c = "Y" -> "y" [] OTHER -> c

\* Variant: the case is left as typed.
LowerOmitted(s) == s

\* str.lower()
Lower(s) == [i \in 1..Len(s) |-> LowerChar(s[i])]

\* str.split("\n")
RECURSIVE SplitLines(_)
SplitLines(s) ==
    IF \A i \in 1..Len(s) : s[i] # "\n" THEN <<s>>
    ELSE LET k == CHOOSE i \in 1..Len(s) :
                      s[i] = "\n" /\ \A j \in 1..(i - 1) : s[j] # "\n"
         IN <<SubSeq(s, 1, k - 1)>> \o SplitLines(SubSeq(s, k + 1, Len(s)))

\* [l.strip() for l in seq if l.strip()]
RECURSIVE StripNonEmpty(_)
StripNonEmpty(ls) ==
    IF ls = <<>> THEN <<>>
    ELSE IF Strip(Head(ls)) = <<>> THEN StripNonEmpty(Tail(ls))
         ELSE <<Strip(Head(ls))>> \o StripNonEmpty(Tail(ls))

\* main: lines = [l.strip() for l in (clipboard_text or "").split("\n") if l.strip()]
ParseClipboard(text) == StripNonEmpty(SplitLines(IF Truthy(text) THEN text.val ELSE <<>>))

\* s.startswith(prefix)
StartsWith(s, prefix) == Len(s) >= Len(prefix) /\ SubSeq(s, 1, Len(prefix)) = prefix

\* old in s
Contains(s, old) ==
    \E i \in 1..(Len(s) - Len(old) + 1) : SubSeq(s, i, i + Len(old) - 1) = old

\* Variant: s.replace(old, new, 1), the first occurrence only
RECURSIVE ReplaceFirst(_, _, _)
ReplaceFirst(s, old, new) ==
    IF Len(s) < Len(old) THEN s
    ELSE IF SubSeq(s, 1, Len(old)) = old
         THEN new \o SubSeq(s, Len(old) + 1, Len(s))
         ELSE <<Head(s)>> \o ReplaceFirst(Tail(s), old, new)

\* s.replace(old, new) for a non-empty old: every non-overlapping occurrence,
\* scanning from the left
RECURSIVE Replace(_, _, _)
Replace(s, old, new) ==
    IF Len(s) < Len(old) THEN s
    ELSE IF SubSeq(s, 1, Len(old)) = old
         THEN new \o Replace(SubSeq(s, Len(old) + 1, Len(s)), old, new)
         ELSE <<Head(s)>> \o Replace(Tail(s), old, new)

-----------------------------------------------------------------------------
(* Literal text of the program *)

SKIP == <<"/", "s", "k", "i", "p">>
IMAGE == <<"/", "i", "m", "a", "g", "e">>
ANKI == <<"/", "a", "n", "k", "i">>
RETRY == <<"r", "e", "t", "r", "y">>
CREATE_CARD == <<"CREATE_CARD">>
IMAGE_PROMPT == <<"IMAGE_PROMPT">>

\* AIAgent._build_system_message
BuildSystemMessage(jp, eng) ==
    <<"SYSTEM_PROMPT_BASE", "JAPANESE SENTENCE: ">> \o jp
        \o <<"ENGLISH SENTENCE: ">> \o eng \o <<"INSTRUCTIONS">>

\* invite = f"Let's discuss this sentence: ..."
Invite(jp) == <<"Let's discuss this sentence: ">> \o jp \o <<" What would you like to explore first?">>

Turn(role, text) == [role |-> role, content |-> text]

\* history = [system, assistant invitation]
InitialHistory(jp, eng) ==
    <<Turn("system", BuildSystemMessage(jp, eng)), Turn("assistant", Invite(jp))>>

\* Variant: the new turn overwrites the last entry.
AppendTurnOverLast(h, role, text) == SubSeq(h, 1, Len(h) - 1) \o <<Turn(role, text)>>

\* history.append({"role": role, "content": content})
AppendTurn(h, role, text) == Append(h, Turn(role, text))

-----------------------------------------------------------------------------
(* Inputs *)

\* What pyperclip.paste() may hold: sentence only; sentence and translation
\* with blank lines and padding; blank text; a repeated-word sentence with
\* translation.
ClipTexts ==
    { <<"a", "b", "a">>,
      <<" ", "a", "b", " ", "\n", "\n", "e", " ">>,
      <<" ", "\n">>,
      <<"a", "a", "a", "\n", "e">> }

\* OPENAI_CHAT_MODEL: the default, two o-series names, one in upper case
Models ==
    { <<"g", "p", "t", "-", "4", "o">>, <<"o", "3", "-", "m", "i", "n", "i">>,
      <<"O", "1">> }

\* paste() returns a text (possibly empty) or raises (None)
PasteResults == {Str(t) : t \in ClipTexts} \cup {Str(<<>>), None}

\* input(): a line, or end of input
Line(s) == [eof |-> FALSE, line |-> s]
EOF == [eof |-> TRUE, line |-> <<>>]

Questions == { <<"q">>, <<" ", "Q", " ">> }

CommandLines ==
    { SKIP, <<"/", "S", "K", "I", "P">>, <<" ", "/", "S", "k", "i", "p", " ">>,
      IMAGE, <<"/", "I", "M", "A", "G", "E">>,
      ANKI, <<" ", "/", "A", "n", "k", "i">> }

BlankLines == { <<>>, <<" ">> }

RetryLines ==
    { RETRY, <<" ", "R", "E", "T", "R", "Y", " ">>, SKIP, <<>>, <<"q">> }

\* what the model call may do: raise, or return a response whose first
\* choice carries content (a text or None), or a response without choices
Raised == [kind |-> "raise", content |-> None]
Malformed == [kind |-> "malformed", content |-> None]
Response(c) == [kind |-> "ok", content |-> c]
ModelResults ==
    { Raised, Malformed, Response(None), Response(Str(<<>>)), Response(Str(<<" ">>)),
      Response(Str(<<"r">>)), Response(Str(<<" ", "r", "\n">>)) }

\* AIAgent._extract_content: (msg.content or "").strip(), "" on any exception
ExtractContent(resp) ==
    IF resp.kind = "ok" /\ Truthy(resp.content) THEN Strip(resp.content.val) ELSE <<>>

\* what a provider call may do: raise, find nothing, or produce a file
ProviderRaised == [kind |-> "raise", filename |-> None]
ProviderNothing == [kind |-> "ok", filename |-> None]
ProviderFile(f) == [kind |-> "ok", filename |-> Str(f)]
ImageResults == {ProviderRaised, ProviderNothing, ProviderFile(<<"img_h.png">>)}
AudioResults == {ProviderRaised, ProviderNothing, ProviderFile(<<"audio_h.mp3">>)}

TargetLines == { <<>>, <<"a">>, <<" ", "a", "b">>, <<"a", "a">>, <<"c">> }
EnglishWordLines == { <<>>, <<"w">> }
ImageIdeaLines == { <<>>, <<"/", "S", "K", "I", "P">>, <<"i">> }
TranslationLines == { <<>>, <<" ", "t">> }

\* main.safe_input: the line, "" at end of input
safe_input(r) == IF r.eof THEN <<>> ELSE r.line

-----------------------------------------------------------------------------
(* State *)

cfgVars == <<enabled, img_fetcher, model>>
evVars == <<clipboard_text, jp_sentence, eng_sentence_auto>>
convVars == <<history, user_input, retry, sent, payload, content, calls>>
resVars == <<conv_result, conv_history>>
cardVars == <<target_word, english_word, image_idea, eng_translation,
              image_filename, audio_filename, fields>>
sinkVars == <<uploads, submitted>>

Running == [isNone |-> TRUE, val |-> 0]
Exited(n) == [isNone |-> FALSE, val |-> n]

\* The locals of start_conversation do not outlive its frame.
ConvCleared ==
    /\ history' = <<>>
    /\ user_input' = <<>>
    /\ retry' = <<>>
    /\ sent' = <<>>
    /\ payload' = <<>>
    /\ content' = <<>>
    /\ calls' = 0

\* The locals main() assigns per clipboard event are all assigned again
\* before they are read in the next event; they are kept blank in between.
CardCleared ==
    /\ target_word' = None
    /\ english_word' = <<>>
    /\ image_idea' = None
    /\ eng_translation' = <<>>
    /\ image_filename' = None
    /\ audio_filename' = None
    /\ fields' = <<>>

EventCleared ==
    /\ clipboard_text' = None
    /\ jp_sentence' = <<>>
    /\ eng_sentence_auto' = <<>>
    /\ conv_result' = None
    /\ conv_history' = None

Init ==
    /\ pc = "listen"
    /\ exit_status = Running
    /\ enabled \in BOOLEAN
    /\ img_fetcher \in BOOLEAN
    /\ model \in Models
    /\ startup \in PasteResults \ {None}
    /\ last \in {startup, None}
    /\ clipboard_text = None
    /\ jp_sentence = <<>>
    /\ eng_sentence_auto = <<>>
    /\ history = <<>>
    /\ user_input = <<>>
    /\ retry = <<>>
    /\ sent = <<>>
    /\ payload = <<>>
    /\ content = <<>>
    /\ calls = 0
    /\ conv_result = None
    /\ conv_history = None
    /\ target_word = None
    /\ english_word = <<>>
    /\ image_idea = None
    /\ eng_translation = <<>>
    /\ image_filename = None
    /\ audio_filename = None
    /\ fields = <<>>
    /\ effects = {}
    /\ uploads = <<>>
    /\ submitted = <<>>

\* The process ends: nothing of its memory is left but the exit status.
Exit(n) ==
    /\ pc' = "exited"
    /\ exit_status' = Exited(n)
    /\ ConvCleared /\ CardCleared /\ EventCleared
    /\ effects' = {}
    /\ uploads' = <<>>
    /\ submitted' = <<>>
    /\ UNCHANGED <<cfgVars, last, startup>>

-----------------------------------------------------------------------------
(* ClipboardListener.listen *)

\* Variant: the text is compared with nothing; any non-empty text is new.
IsNewAlways(current, recorded) == Truthy(current)

\* if current and current != self._last
IsNew(current, recorded) == Truthy(current) /\ current # recorded

\* One turn of the polling loop: paste, compare with _last, yield or sleep.
\* A read that returns something else than the startup content shows that
\* the clipboard has changed since startup; the startup content is followed
\* no further once the clipboard has changed or a text is yielded.
Poll(current) ==
    /\ pc = "listen"
    /\ startup' = IF ~IsNew(current, last) /\ (current.isNone \/ current = startup)
                  THEN startup ELSE None
    /\ IF IsNew(current, last)
       THEN /\ last' = current
            /\ clipboard_text' = current
            /\ pc' = "event"
            /\ effects' = {}
            /\ uploads' = <<>>
            /\ submitted' = <<>>
            /\ UNCHANGED <<exit_status, cfgVars, jp_sentence, eng_sentence_auto,
                           convVars, resVars, cardVars>>
       ELSE UNCHANGED <<pc, exit_status, cfgVars, last, evVars, convVars, resVars,
                        cardVars, effects, sinkVars>>

-----------------------------------------------------------------------------
(* AIAgent.start_conversation *)

\* Variant: the branch goes round the loop again instead of returning.
ReturnContinues(tag, hist) ==
    /\ pc' = "conv_prompt"
    /\ UNCHANGED resVars

\* return tag, history
Return(tag, hist) ==
    /\ pc' = "conv_returned"
    /\ conv_result' = tag
    /\ conv_history' = hist

\* Variant: offline mode returns the abandon pair.
OfflineResultNone(jp, h) == <<None, None>>

\* if not self.enabled: return invite, history
OfflineResult(jp, h) == <<Str(Invite(jp)), Str(h)>>

\* main parses the yielded text and, for a sentence, calls start_conversation,
\* which runs up to its first input() or, offline, to its return.
BeginEvent ==
    /\ pc = "event"
    /\ LET lines == ParseClipboard(clipboard_text)
       IN IF lines = <<>>
          THEN /\ pc' = "listen"
               /\ clipboard_text' = None
               /\ UNCHANGED <<jp_sentence, eng_sentence_auto, history, resVars>>
          ELSE LET jp == lines[1]
                   eng == IF Len(lines) >= 2 THEN lines[2] ELSE <<>>
                   h == InitialHistory(jp, eng)
               IN /\ jp_sentence' = jp
                  /\ eng_sentence_auto' = eng
                  /\ history' = h
                  /\ UNCHANGED clipboard_text
                  /\ IF ~enabled
                     THEN Return(OfflineResult(jp, h)[1], OfflineResult(jp, h)[2])
                     ELSE /\ pc' = "conv_prompt"
                          /\ UNCHANGED resVars
    /\ UNCHANGED <<exit_status, cfgVars, last, startup, sinkVars, user_input, retry, sent, payload,
                   content,
                   calls, cardVars, effects>>

\* user_input = input("\nYou: ").strip(); end of input raises EOFError, which
\* only main's "except Exception" catches.
ReadLine(r) ==
    /\ pc = "conv_prompt"
    /\ IF r.eof
       THEN Exit(1)
       ELSE /\ user_input' = Strip(r.line)
            /\ pc' = "conv_dispatch"
            /\ effects' = effects \cup {"input"}
            /\ UNCHANGED <<exit_status, cfgVars, last, startup, sinkVars, evVars, history, retry,
                           sent, payload, content, calls, resVars, cardVars>>

\* Variant: the command is compared without its slash.
IsAnkiNoSlash(cmd) == cmd = Tail(ANKI)

IsSkip(cmd) == cmd = SKIP
IsImage(cmd) == cmd = IMAGE
IsAnki(cmd) == cmd = ANKI

\* The body of the loop from the emptiness test to the model call.
HandleInput ==
    /\ pc = "conv_dispatch"
    /\ LET cmd == Lower(user_input)
       IN IF user_input = <<>>
          THEN /\ pc' = "conv_prompt"
               /\ UNCHANGED <<history, resVars>>
          ELSE IF IsSkip(cmd)
          THEN /\ Return(None, None)
               /\ UNCHANGED history
          ELSE IF IsImage(cmd)
          THEN /\ Return(Str(IMAGE_PROMPT), Str(history))
               /\ UNCHANGED history
          ELSE IF IsAnki(cmd)
          THEN /\ Return(Str(CREATE_CARD), Str(history))
               /\ UNCHANGED history
          ELSE /\ history' = AppendTurn(history, "user", user_input)
               /\ pc' = "model_call"
               /\ UNCHANGED resVars
    /\ UNCHANGED <<exit_status, cfgVars, last, startup, sinkVars, evVars, user_input, retry, sent,
                   payload,
                   content, calls, cardVars, effects>>

\* Variant: the model family is told by a lower-case 'o' only.
IsOCaseSensitive(m) == m # <<>> /\ StartsWith(m, <<"o">>)

\* AIAgent.is_o: bool(self.model and self.model.lower().startswith("o"))
IsO(m) == m # <<>> /\ StartsWith(Lower(m), <<"o">>)

\* Variant: the messages are the history without its last turn.
PreparePayloadWithoutQuestion(h) ==
    LET base == [k \in {"model", "messages"} |->
                    IF k = "model" THEN model ELSE SubSeq(h, 1, Len(h) - 1)]
    IN IF ~IsO(model)
       THEN base @@ ("temperature" :> 0) @@ ("max_tokens" :> 800)
       ELSE base @@ ("max_completion_tokens" :> 800)

\* AIAgent._prepare_payload
_prepare_payload(h) ==
    LET base == [k \in {"model", "messages"} |-> IF k = "model" THEN model ELSE h]
    IN IF ~IsO(model)
       THEN base @@ ("temperature" :> 0) @@ ("max_tokens" :> 800)
       ELSE base @@ ("max_completion_tokens" :> 800)

\* Variant: the response is appended without the emptiness test.
AfterResponseUnchecked(h, c) == AppendTurn(h, "assistant", c)

\* The history once a response's text is extracted: an empty text is
\* reported and nothing is appended, any other is appended as assistant turn.
AfterResponse(h, c) == IF c = <<>> THEN h ELSE AppendTurn(h, "assistant", c)

\* client.chat.completions.create(**payload) and what follows it, up to the
\* next input().
ModelCall(res) ==
    /\ pc = "model_call"
    /\ payload' = _prepare_payload(history)
    /\ sent' = payload'["messages"]
    /\ calls' = calls + 1
    /\ effects' = effects \cup {"model_call"}
    /\ IF res.kind = "raise"
       THEN /\ pc' = "retry_prompt"
            /\ UNCHANGED <<history, content>>
       ELSE /\ content' = ExtractContent(res)
            /\ history' = AfterResponse(history, content')
            /\ pc' = "conv_prompt"
    /\ UNCHANGED <<exit_status, cfgVars, last, startup, sinkVars, evVars, user_input, retry,
                   resVars, cardVars>>

\* retry = input("Type 'retry' or '/skip': ").strip().lower()
RetryAnswer(r) ==
    /\ pc = "retry_prompt"
    /\ IF r.eof
       THEN Exit(1)
       ELSE /\ retry' = Lower(Strip(r.line))
            /\ effects' = effects \cup {"retry_prompt"}
            /\ IF retry' = RETRY
               THEN /\ pc' = "conv_prompt"
                    /\ UNCHANGED resVars
               ELSE Return(None, None)
            /\ UNCHANGED <<exit_status, cfgVars, last, startup, sinkVars, evVars, history,
                           user_input, sent, payload, content, calls, cardVars>>

-----------------------------------------------------------------------------
(* main: from the conversation's result to the field prompts *)

\* Variant: the abandon test looks for a tag instead of the None pair.
IsAbandonedByTag(tag, hist) == tag = Str(SKIP) /\ hist.isNone

\* conv_result is None and history is None
IsAbandoned(tag, hist) == tag.isNone /\ hist.isNone

\* image_idea = safe_input(...).strip(); "/skip" or "" becomes None
ImageIdea(r) ==
    LET idea == Strip(safe_input(r))
    IN IF Lower(idea) = SKIP \/ idea = <<>> THEN None ELSE Str(idea)

\* The next blocking call once the prompts are answered: the image search
\* when there is an idea and a fetcher, else the audio synthesis.
AfterPrompts(idea) ==
    /\ image_filename' = None
    /\ pc' = IF Truthy(idea) /\ img_fetcher THEN "image_fetch" ELSE "audio_gen"

\* Variant: every result opens the metadata prompts.
FlowForAlwaysMetadata(tag) == "ask_target"

\* if conv_result == "IMAGE_PROMPT": ... else: ...
FlowFor(tag) == IF tag = Str(IMAGE_PROMPT) THEN "ask_image_only" ELSE "ask_target"

\* main tests the result and opens the flow it selects, up to that flow's
\* first safe_input().
Dispatch ==
    /\ pc = "conv_returned"
    /\ ConvCleared
    /\ IF IsAbandoned(conv_result, conv_history)
       THEN /\ pc' = "listen"
            /\ EventCleared
       ELSE /\ pc' = FlowFor(conv_result)
            /\ conv_history' = None
            /\ UNCHANGED <<evVars, conv_result>>
    /\ UNCHANGED <<exit_status, cfgVars, last, startup, sinkVars, cardVars, effects>>

\* IMAGE_PROMPT flow: only the image idea is asked.
AskImageOnly(r) ==
    /\ pc = "ask_image_only"
    /\ image_idea' = ImageIdea(r)
    /\ target_word' = None
    /\ english_word' = <<>>
    /\ eng_translation' = eng_sentence_auto
    /\ AfterPrompts(image_idea')
    /\ effects' = effects \cup {"field_prompt"}
    /\ UNCHANGED <<exit_status, cfgVars, last, startup, sinkVars, evVars, convVars, resVars,
                   audio_filename, fields>>

AskTarget(r) ==
    /\ pc = "ask_target"
    /\ target_word' = Str(Strip(safe_input(r)))
    /\ pc' = "ask_english"
    /\ effects' = effects \cup {"field_prompt"}
    /\ UNCHANGED <<exit_status, cfgVars, last, startup, sinkVars, evVars, convVars, resVars,
                   english_word, image_idea, eng_translation, image_filename,
                   audio_filename, fields>>

AskEnglish(r) ==
    /\ pc = "ask_english"
    /\ english_word' = Strip(safe_input(r))
    /\ pc' = "ask_image"
    /\ effects' = effects \cup {"field_prompt"}
    /\ UNCHANGED <<exit_status, cfgVars, last, startup, sinkVars, evVars, convVars, resVars,
                   target_word, image_idea, eng_translation, image_filename,
                   audio_filename, fields>>

\* Variant: the auto-detected translation is never taken.
AutoDetectedNever(auto) == FALSE

\* if eng_sentence_auto:
AutoDetected(auto) == auto # <<>>

\* The image idea, then the translation: the auto-detected one when there is
\* one, else it is asked for.
AskImage(r) ==
    /\ pc = "ask_image"
    /\ image_idea' = ImageIdea(r)
    /\ IF AutoDetected(eng_sentence_auto)
       THEN /\ eng_translation' = eng_sentence_auto
            /\ AfterPrompts(image_idea')
       ELSE /\ pc' = "ask_translation"
            /\ UNCHANGED <<eng_translation, image_filename>>
    /\ effects' = effects \cup {"field_prompt"}
    /\ UNCHANGED <<exit_status, cfgVars, last, startup, sinkVars, evVars, convVars, resVars,
                   target_word, english_word, audio_filename, fields>>

AskTranslation(r) ==
    /\ pc = "ask_translation"
    /\ eng_translation' = Strip(safe_input(r))
    /\ AfterPrompts(image_idea)
    /\ effects' = effects \cup {"field_prompt", "translation_prompt"}
    /\ UNCHANGED <<exit_status, cfgVars, last, startup, sinkVars, evVars, convVars, resVars,
                   target_word, english_word, image_idea, audio_filename,
                   fields>>

-----------------------------------------------------------------------------
(* main: media, card fields, submission *)

HL_OPEN == "<b><span style=\"color:red;\">"
HL_CLOSE == "</span></b>"
BACK_OPEN == "<b><span style=\"color:orange;\">"
STYLE_WRAPPER_START == "<div style=\"background:black; color:orange;\">"
STYLE_WRAPPER_END == "</div>"

FieldNames ==
    {"Front[ENG]", "Image", "Back[SWE]", "Examples", "Audio", "Example English",
     "Audio Example", "Grammar"}

Wrapped(text) == <<STYLE_WRAPPER_START>> \o text \o <<STYLE_WRAPPER_END>>

\* Variant: a target word that is not found marks the whole sentence.
HighlightedExampleMarksSentence(jp, tw) ==
    IF Truthy(tw) /\ Contains(jp, tw.val)
    THEN Replace(jp, tw.val, <<HL_OPEN>> \o Format(tw) \o <<HL_CLOSE>>)
    ELSE <<HL_OPEN>> \o jp \o <<HL_CLOSE>>

\* highlighted_example
HighlightedExample(jp, tw) ==
    IF Truthy(tw) /\ Contains(jp, tw.val)
    THEN Replace(jp, tw.val, <<HL_OPEN>> \o Format(tw) \o <<HL_CLOSE>>)
    ELSE jp

\* Variant: the target word is rendered without testing it.
BackSweValueUntested(tw) == <<BACK_OPEN>> \o Format(tw) \o <<HL_CLOSE>>

\* back_swe_value
BackSweValue(tw) ==
    IF Truthy(tw) THEN <<BACK_OPEN>> \o Format(tw) \o <<HL_CLOSE>> ELSE <<>>

\* fields = {...}
BuildFields(jp, tw, ew, tr) ==
    [k \in FieldNames |->
        CASE k = "Front[ENG]" -> Wrapped(ew)
          [] k = "Back[SWE]" -> Wrapped(BackSweValue(tw))
          [] k = "Examples" -> Wrapped(HighlightedExample(jp, tw))
          [] k = "Example English" -> Wrapped(tr)
          [] OTHER -> <<>>]

\* img_fetcher.search_and_download(image_idea, jp_sentence)
ImageFetch(res) ==
    /\ pc = "image_fetch"
    /\ image_filename' = IF res.kind = "raise" THEN None ELSE res.filename
    /\ pc' = "audio_gen"
    /\ effects' = effects \cup {"image_fetch"}
    /\ UNCHANGED <<exit_status, cfgVars, last, startup, sinkVars, evVars, convVars, resVars,
                   target_word, english_word, image_idea, eng_translation,
                   audio_filename, fields>>

\* Variant: without any media file the card is given up.
AfterFieldsNeedsMedia(img, aud) ==
    IF Truthy(img) THEN "store_image"
    ELSE IF Truthy(aud) THEN "store_audio" ELSE "listen"

\* The first storeMediaFile call due, else addNote.
AfterFields(img, aud) ==
    IF Truthy(img) THEN "store_image"
    ELSE IF Truthy(aud) THEN "store_audio" ELSE "add_note"

\* tts.generate_audio(jp_sentence), then the card fields are built.
AudioGen(res) ==
    /\ pc = "audio_gen"
    /\ audio_filename' = IF res.kind = "raise" THEN None ELSE res.filename
    /\ fields' = BuildFields(jp_sentence, target_word, english_word, eng_translation)
    /\ pc' = AfterFields(image_filename, audio_filename')
    /\ effects' = effects \cup {"audio"}
    /\ UNCHANGED <<exit_status, cfgVars, last, startup, sinkVars, evVars, convVars, resVars,
                   target_word, english_word, image_idea, eng_translation,
                   image_filename>>

ImageTag(name) == <<"<img src=\"">> \o name \o <<"\">">>
SoundTag(name) == <<"[sound:">> \o name \o <<"]">>

\* Variant: the slot is filled whatever store_media_file returned.
WithMediaUnchecked(f, slot, tag, ok) == [f EXCEPT ![slot] = tag]

\* if ok: fields[slot] = tag
WithMedia(f, slot, tag, ok) == IF ok THEN [f EXCEPT ![slot] = tag] ELSE f

\* store_media_file(image_filename, image_path): False when the file is
\* missing or the sink answers with an error
StoreImage(ok) ==
    /\ pc = "store_image"
    /\ fields' = WithMedia(fields, "Image", ImageTag(image_filename.val), ok)
    /\ pc' = AfterFields(None, audio_filename)
    /\ effects' = effects \cup {"store_media"}
    /\ uploads' = Append(uploads, [filename |-> image_filename.val, ok |-> ok])
    /\ UNCHANGED <<exit_status, cfgVars, last, startup, submitted, evVars, convVars, resVars,
                   target_word, english_word, image_idea, eng_translation,
                   image_filename, audio_filename>>

StoreAudio(ok) ==
    /\ pc = "store_audio"
    /\ fields' = WithMedia(fields, "Audio Example", SoundTag(audio_filename.val), ok)
    /\ pc' = "add_note"
    /\ effects' = effects \cup {"store_media"}
    /\ uploads' = Append(uploads, [filename |-> audio_filename.val, ok |-> ok])
    /\ UNCHANGED <<exit_status, cfgVars, last, startup, submitted, evVars, convVars, resVars,
                   target_word, english_word, image_idea, eng_translation,
                   image_filename, audio_filename>>

DECK_NAME == "Test Script Wk deck"
SVENSKA_MODEL_NAME == "Basic+"
NoteTags == <<"wanikani", "auto">>

\* what a request to AnkiConnect may do: raise (no connection, a timeout, an
\* HTTP error status, a body that is not JSON) or answer with an envelope
\* {result, error}; the error of an answer is null or a message
AnkiRaised(msg) == [kind |-> "raise", msg |-> msg, error |-> None, result |-> None]
AnkiReplied(err, res) == [kind |-> "ok", msg |-> <<>>, error |-> err, result |-> res]
AddNoteOutcomes ==
    { AnkiRaised(<<"timed out">>),
      AnkiReplied(None, Str(<<"1496198395707">>)),
      AnkiReplied(Str(<<"cannot create note because it is a duplicate">>), None) }

\* invoke_anki: the envelope of the answer; an exception becomes the envelope
\* {"error": str(e), "result": None}
invoke_anki(outcome) ==
    IF outcome.kind = "raise"
    THEN [error |-> Str(outcome.msg), result |-> None]
    ELSE [error |-> outcome.error, result |-> outcome.result]

\* Variant: duplicates are allowed.
AddNoteRequestAllowingDuplicates(f, tags) ==
    [action |-> "addNote", version |-> 6,
     params |-> [note |-> [deckName |-> DECK_NAME, modelName |-> SVENSKA_MODEL_NAME,
                           fields |-> f, options |-> [allowDuplicate |-> TRUE],
                           tags |-> tags]]]

\* the payload add_note_to_anki hands to invoke_anki
AddNoteRequest(f, tags) ==
    [action |-> "addNote", version |-> 6,
     params |-> [note |-> [deckName |-> DECK_NAME, modelName |-> SVENSKA_MODEL_NAME,
                           fields |-> f, options |-> [allowDuplicate |-> FALSE],
                           tags |-> tags]]]

\* add_note_to_anki's first result: False when resp.get("error") is truthy
AddNoteOk(resp) == ~Truthy(resp.error)

\* Variant: a failed submission ends the process.
AfterAddNoteExitsOnFailure(ok) == IF ok THEN "listen" ELSE "exited"

\* The result is printed, as success or as failure, and the for loop takes
\* the next clipboard text.
AfterAddNote(ok) == "listen"

\* ok, resp = add_note_to_anki(DECK_NAME, SVENSKA_MODEL_NAME, fields, tags)
AddNote(outcome) ==
    /\ pc = "add_note"
    /\ LET resp == invoke_anki(outcome)
           ok == AddNoteOk(resp)
       IN /\ submitted' = Append(submitted,
                [request |-> AddNoteRequest(fields, NoteTags), ok |-> ok, resp |-> resp])
          /\ pc' = AfterAddNote(ok)
    /\ effects' = effects \cup {"add_note"}
    /\ EventCleared
    /\ CardCleared
    /\ UNCHANGED <<exit_status, cfgVars, last, startup, uploads, convVars>>

\* Ctrl+C: KeyboardInterrupt passes every "except Exception" and reaches
\* main's handler, which says goodbye and returns.
Interrupt ==
    /\ pc # "exited"
    /\ Exit(0)

-----------------------------------------------------------------------------
(* Specification *)

\* Lines offered at the main prompt: a question only while the history has
\* room for it and its answer.
MainLines ==
    CommandLines \cup BlankLines
        \cup (IF Len(history) + 2 <= MaxHistory THEN Questions ELSE {})

Next ==
    \/ \E current \in PasteResults : Poll(current)
    \/ BeginEvent
    \/ \E r \in {Line(l) : l \in MainLines} \cup {EOF} : ReadLine(r)
    \/ HandleInput
    \/ \E res \in ModelResults : ModelCall(res)
    \/ \E r \in {Line(l) : l \in RetryLines} \cup {EOF} : RetryAnswer(r)
    \/ Dispatch
    \/ \E r \in {Line(l) : l \in ImageIdeaLines} \cup {EOF} : AskImageOnly(r)
    \/ \E r \in {Line(l) : l \in TargetLines} \cup {EOF} : AskTarget(r)
    \/ \E r \in {Line(l) : l \in EnglishWordLines} \cup {EOF} : AskEnglish(r)
    \/ \E r \in {Line(l) : l \in ImageIdeaLines} \cup {EOF} : AskImage(r)
    \/ \E r \in {Line(l) : l \in TranslationLines} \cup {EOF} : AskTranslation(r)
    \/ \E res \in ImageResults : ImageFetch(res)
    \/ \E res \in AudioResults : AudioGen(res)
    \/ \E ok \in BOOLEAN : StoreImage(ok)
    \/ \E ok \in BOOLEAN : StoreAudio(ok)
    \/ \E outcome \in AddNoteOutcomes : AddNote(outcome)
    \/ Interrupt

Spec == Init /\ [][Next]_vars

\* The one thread keeps running while it can: the interpreter does not stop
\* by itself, and the user keeps answering.
FairSpec == Spec /\ WF_vars(Next)

-----------------------------------------------------------------------------
(* Properties *)

ConvPcs == {"conv_prompt", "conv_dispatch", "model_call", "retry_prompt"}

\* The stripped spellings of the commands among the lines offered.
SkipSpellings == {SKIP, <<"/", "S", "K", "I", "P">>, <<"/", "S", "k", "i", "p">>}
ImageSpellings == {IMAGE, <<"/", "I", "M", "A", "G", "E">>}
AnkiSpellings == {ANKI, <<"/", "A", "n", "k", "i">>}
CommandSpellings == SkipSpellings \cup ImageSpellings \cup AnkiSpellings

\* I/O that belongs to card production
CardEffects == {"field_prompt", "image_fetch", "audio", "store_media", "add_note"}

UserTurns(h) == Cardinality({i \in 1..Len(h) : h[i].role = "user"})

\* C1: every return of start_conversation carries ("CREATE_CARD", history),
\* ("IMAGE_PROMPT", history) or (None, None), and nothing else.
C1_ThreeOutcomes ==
    pc = "conv_returned" =>
        \/ conv_result = Str(CREATE_CARD) /\ ~conv_history.isNone
        \/ conv_result = Str(IMAGE_PROMPT) /\ ~conv_history.isNone
        \/ conv_result = None /\ conv_history = None

\* C2 as stated: a conversation waiting at its prompt always comes to a
\* return (the process ending counts as well), whatever the user types.
C2_AlwaysReturns ==
    (pc = "conv_prompt") ~> (pc \in {"conv_returned", "exited"})

\* C2 amended: once the user has entered /skip, /image or /anki at the main
\* prompt, the conversation comes to a return (or the process has ended).
C2_ReturnsOnCommand ==
    (pc = "conv_dispatch" /\ user_input \in CommandSpellings)
        ~> (pc \in {"conv_returned", "exited"})

C2_Witness ==
    /\ pc = "conv_returned"
    /\ user_input \in SkipSpellings \ {SKIP}
    /\ calls >= 1

\* C3: /skip in any letter case, read at the main prompt at any point, makes
\* start_conversation return (None, None) without a further model call, and
\* main then goes back to the clipboard without any card-producing I/O.
C3_SkipAbandons ==
    /\ [][(pc = "conv_dispatch" /\ user_input \in SkipSpellings)
            => \/ pc' = "exited"
               \/ /\ pc' = "conv_returned"
                  /\ conv_result' = None /\ conv_history' = None
                  /\ calls' = calls /\ sent' = sent /\ effects' = effects]_vars
    /\ [][(pc = "conv_returned" /\ conv_result = None /\ conv_history = None)
            => /\ pc' \in {"listen", "exited"}
               /\ effects \cap CardEffects = {}
               /\ effects' \cap CardEffects = {}]_vars

C3_Witness ==
    /\ pc = "conv_returned"
    /\ user_input = <<"/", "S", "K", "I", "P">>
    /\ conv_result = None /\ conv_history = None
    /\ calls >= 2
    /\ Len(history) >= 5

\* C4: /image and /anki, in any letter case, end the conversation with
\* ("IMAGE_PROMPT", history) and ("CREATE_CARD", history); the history is the
\* one accumulated before the command, the command is not appended and no
\* model call is made for it.
C4_ImageAnkiCommands ==
    [][(pc = "conv_dispatch" /\ user_input \in ImageSpellings \cup AnkiSpellings)
         => \/ pc' = "exited"
            \/ /\ pc' = "conv_returned"
               /\ conv_result' = IF user_input \in ImageSpellings
                                 THEN Str(IMAGE_PROMPT) ELSE Str(CREATE_CARD)
               /\ conv_history' = Str(history)
               /\ history' = history
               /\ \A i \in 1..Len(history') : history'[i].content # user_input
               /\ calls' = calls /\ sent' = sent /\ effects' = effects]_vars

C4_Witness ==
    /\ pc = "conv_returned"
    /\ user_input = <<"/", "I", "M", "A", "G", "E">>
    /\ conv_result = Str(IMAGE_PROMPT)
    /\ Len(conv_history.val) >= 4
    /\ conv_history.val[4].role = "assistant"

\* C5: after a failed model call the user is asked once; on 'retry' the model
\* is called again on the same history, with no new user turn in between; any
\* other answer returns (None, None).
C5_RetryCallsModelAgain ==
    /\ [][(pc = "retry_prompt" /\ pc' # "exited" /\ retry' = RETRY)
            => (pc' = "model_call" /\ history' = history)]_vars
    /\ [][(pc = "retry_prompt" /\ pc' # "exited" /\ retry' # RETRY)
            => (pc' = "conv_returned" /\ conv_result' = None /\ conv_history' = None)]_vars

\* A model call has just returned an empty text.
EmptyResponseStep ==
    pc = "model_call" /\ pc' \notin {"retry_prompt", "exited"} /\ content' = <<>>

\* C6 as stated: after an empty response the history is what it was before
\* the question was entered, i.e. the messages sent less the question.
C6_EmptyResponseRestoresHistory ==
    [][EmptyResponseStep => history' = SubSeq(sent', 1, Len(sent') - 1)]_vars

\* C6 amended: an empty response appends no assistant turn; the history stays
\* what was sent, its last entry the user turn of the question, and the loop
\* goes back to read a line.
C6_EmptyResponseAppendsNoAnswer ==
    [][EmptyResponseStep
         => /\ history' = history
            /\ history' = sent'
            /\ history'[Len(history')] = Turn("user", user_input)
            /\ pc' = "conv_prompt"]_vars

C6_Witness ==
    /\ pc = "conv_prompt"
    /\ calls >= 1
    /\ content = <<>>
    /\ retry = <<>>
    /\ history[Len(history)].role = "user"

\* C7: while a conversation runs, entry 0 of its history is the system
\* instruction and entry 1 the invitation, and every step leaves the history
\* unchanged or adds one entry at its end.
C7_HistoryAppendOnly ==
    /\ []((pc \in ConvPcs \cup {"conv_returned"})
            => /\ Len(history) >= 2
               /\ history[1] = Turn("system", BuildSystemMessage(jp_sentence, eng_sentence_auto))
               /\ history[2] = Turn("assistant", Invite(jp_sentence)))
    /\ [][(pc \in ConvPcs /\ pc' \in ConvPcs \cup {"conv_returned"})
            => \/ history' = history
               \/ /\ Len(history') = Len(history) + 1
                  /\ SubSeq(history', 1, Len(history)) = history]_vars

C7_Witness ==
    /\ pc = "conv_prompt"
    /\ Len(history) = 6
    /\ history[4].role = "assistant"
    /\ history[6].role = "assistant"

\* C8: a non-empty line that is no command is first appended as a user turn,
\* then the model is called with the whole history, then a non-empty answer
\* is appended as an assistant turn; a model call is made only for such a
\* line, none before the first question, and never more calls than user
\* turns.
C8_QuestionThenCallThenAnswer ==
    /\ [](/\ calls <= UserTurns(history)
          /\ (UserTurns(history) = 0 => calls = 0 /\ sent = <<>>))
    /\ [][(pc = "conv_dispatch" /\ user_input # <<>>
              /\ user_input \notin CommandSpellings /\ pc' # "exited")
            => /\ pc' = "model_call"
               /\ history' = Append(history, Turn("user", user_input))
               /\ calls' = calls]_vars
    /\ [][calls' = calls + 1
            => /\ pc = "model_call"
               /\ user_input # <<>> /\ user_input \notin CommandSpellings
               /\ history[Len(history)] = Turn("user", user_input)
               /\ sent' = history]_vars
    /\ [][(pc = "model_call" /\ pc' \notin {"retry_prompt", "exited"} /\ content' # <<>>)
            => history' = Append(history, Turn("assistant", content'))]_vars

C8_Witness ==
    /\ pc = "conv_prompt"
    /\ calls = 2
    /\ UserTurns(history) = 2
    /\ history[Len(history)] = Turn("assistant", <<"r">>)

\* C9: without a backend start_conversation returns at once: no line is
\* read, no model call is made, the returned history is the system entry and
\* the invitation, and main opens the manual field prompts, never the
\* image-prompt flow or the abandon path.
C9_OfflineGoesToManualEntry ==
    /\ [](~enabled
            => /\ pc \notin ConvPcs \cup {"ask_image_only"}
               /\ calls = 0
               /\ effects \cap {"input", "model_call", "retry_prompt"} = {}
               /\ (pc = "conv_returned"
                     => /\ conv_history = Str(InitialHistory(jp_sentence, eng_sentence_auto))
                        /\ Len(conv_history.val) = 2))
    /\ [][(~enabled /\ pc = "event" /\ ParseClipboard(clipboard_text) # <<>>)
            => pc' \in {"conv_returned", "exited"}]_vars
    /\ [][(~enabled /\ pc = "conv_returned") => pc' \in {"ask_target", "exited"}]_vars

C9_Witness ==
    /\ ~enabled
    /\ pc = "ask_translation"
    /\ target_word = Str(<<"a">>)

\* Occurrences of a token in a text
CountTok(s, t) == Cardinality({i \in 1..Len(s) : s[i] = t})

\* The text with the highlight markup taken out
Unmarked(s) == SelectSeq(s, LAMBDA c : c \notin {HL_OPEN, HL_CLOSE})

\* Position of the leftmost occurrence of old in s
FirstIndex(s, old) ==
    CHOOSE i \in 1..Len(s) :
        /\ SubSeq(s, i, i + Len(old) - 1) = old
        /\ \A j \in 1..(i - 1) : SubSeq(s, j, j + Len(old) - 1) # old

\* Non-overlapping occurrences of old in s, counted from the left
RECURSIVE CountOccurrences(_, _)
CountOccurrences(s, old) ==
    IF Len(s) < Len(old) THEN 0
    ELSE IF SubSeq(s, 1, Len(old)) = old
         THEN 1 + CountOccurrences(SubSeq(s, Len(old) + 1, Len(s)), old)
         ELSE CountOccurrences(Tail(s), old)

\* The card fields are built and the target word occurs in the sentence.
TargetInSentence ==
    /\ fields # <<>>
    /\ Truthy(target_word)
    /\ Contains(jp_sentence, target_word.val)

\* The leftmost occurrence carries the markup (position i of the sentence
\* is position i + 1 of the slot, after the wrapper's opening).
LeftmostMarked(ex, jp, tw) ==
    LET i == FirstIndex(jp, tw)
    IN /\ ex[i + 1] = HL_OPEN
       /\ SubSeq(ex, i + 2, i + 1 + Len(tw)) = tw
       /\ ex[i + 2 + Len(tw)] = HL_CLOSE

\* C10 as stated: the Examples slot has the markup exactly once, around the
\* leftmost occurrence of the target word, and all else is unmarked.
C10_HighlightsFirstOnly ==
    TargetInSentence =>
        LET ex == fields["Examples"]
        IN /\ CountTok(ex, HL_OPEN) = 1
           /\ CountTok(ex, HL_CLOSE) = 1
           /\ LeftmostMarked(ex, jp_sentence, target_word.val)
           /\ Unmarked(ex) = Wrapped(jp_sentence)

\* C10 amended: the Examples slot has the markup once for every
\* non-overlapping occurrence of the target word, counted from the left, each
\* around one occurrence, the leftmost included, and all else is unmarked.
C10_HighlightsEveryOccurrence ==
    TargetInSentence =>
        LET ex == fields["Examples"]
            tw == target_word.val
        IN /\ CountTok(ex, HL_OPEN) = CountOccurrences(jp_sentence, tw)
           /\ CountTok(ex, HL_CLOSE) = CountOccurrences(jp_sentence, tw)
           /\ \A i \in 1..Len(ex) :
                 ex[i] = HL_OPEN
                    => /\ SubSeq(ex, i + 1, i + Len(tw)) = tw
                       /\ ex[i + Len(tw) + 1] = HL_CLOSE
           /\ LeftmostMarked(ex, jp_sentence, tw)
           /\ Unmarked(ex) = Wrapped(jp_sentence)

C10_Witness ==
    /\ TargetInSentence
    /\ jp_sentence = <<"a", "b", "a">>
    /\ target_word = Str(<<"a">>)
    /\ CountTok(fields["Examples"], HL_OPEN) = 2

-----------------------------------------------------------------------------
(* The requests made to the card sink for the current clipboard event *)

\* The field mappings handed to addNote.
SubmittedFields == { submitted[j].request.params.note.fields : j \in DOMAIN submitted }
\* File names store_media_file was called with, and those it returned True for.
Attempted == { uploads[i].filename : i \in DOMAIN uploads }
Uploaded == { uploads[i].filename : i \in {k \in DOMAIN uploads : uploads[k].ok} }
ImageFiles == { res.filename.val : res \in {r \in ImageResults : Truthy(r.filename)} }
AudioFiles == { res.filename.val : res \in {r \in AudioResults : Truthy(r.filename)} }

\* A media slot holds a reference only to a file uploaded with success.
MediaSlotsBacked(f) ==
    /\ f["Image"] # <<>> =>
          \E n \in Uploaded \cap ImageFiles : f["Image"] = ImageTag(n)
    /\ f["Audio Example"] # <<>> =>
          \E n \in Uploaded \cap AudioFiles : f["Audio Example"] = SoundTag(n)
    /\ (Attempted \ Uploaded) \cap ImageFiles # {} => f["Image"] = <<>>
    /\ (Attempted \ Uploaded) \cap AudioFiles # {} => f["Audio Example"] = <<>>

\* C11: the Image and Audio Example slots of the mapping being built and of
\* every submitted note are non-empty only when store_media_file returned
\* True for that asset in the same clipboard event; without an image idea or
\* without a fetcher there is no image file; without an image file no image
\* upload is attempted and the Image slot is empty; after a failed upload the
\* slot is empty.
C11_MediaSlotsNeedUpload ==
    /\ fields # <<>> => MediaSlotsBacked(fields)
    /\ \A f \in SubmittedFields : MediaSlotsBacked(f)
    /\ ( /\ pc \in {"audio_gen", "store_image", "store_audio", "add_note"}
         /\ ~Truthy(image_idea) \/ ~img_fetcher ) => ~Truthy(image_filename)
    /\ (pc \in {"store_image", "store_audio", "add_note"} /\ ~Truthy(image_filename))
          => /\ Attempted \cap ImageFiles = {}
             /\ fields["Image"] = <<>>
    /\ \A f \in SubmittedFields : Attempted \cap ImageFiles = {} => f["Image"] = <<>>

\* A note was submitted with an uploaded image and, its audio upload having
\* failed, an empty Audio Example slot.
C11_Witness ==
    /\ pc = "listen"
    /\ \E f \in SubmittedFields :
          /\ f["Image"] = ImageTag(<<"img_h.png">>)
          /\ f["Audio Example"] = <<>>
    /\ (Attempted \ Uploaded) \cap AudioFiles # {}

\* Where main stands between the conversation's result and the submission.
FlowPcs ==
    {"ask_image_only", "ask_target", "ask_english", "ask_image", "ask_translation",
     "image_fetch", "audio_gen", "store_image", "store_audio", "add_note"}

\* An asset failed: its provider gave no file, or its upload did not succeed.
AssetFailed(filename) == ~Truthy(filename) \/ filename.val \notin Uploaded

\* The step that leaves the per-sentence flow for the listener is the one
\* addNote submission of the event, with the slot of each failed asset empty.
C12_FlowEndsInSubmission ==
    (pc \in FlowPcs /\ pc' = "listen") =>
        /\ pc = "add_note"
        /\ Len(submitted') = 1
        /\ LET f == submitted'[1].request.params.note.fields
           IN /\ AssetFailed(image_filename) => f["Image"] = <<>>
              /\ AssetFailed(audio_filename) => f["Audio Example"] = <<>>

\* C12: once the conversation has returned an outcome other than Abandoned,
\* whatever the image search, the audio synthesis and the uploads do (a
\* file, nothing, an exception, an upload refused), the flow goes on to
\* exactly one addNote submission, in which the slot of each failed asset is
\* empty; only the operator's interrupt ends it earlier.
C12_MediaFailureStillSubmits ==
    /\ [](Len(submitted) <= 1)
    /\ [][C12_FlowEndsInSubmission]_vars
    /\ [][(pc \in FlowPcs /\ pc' = "exited") => exit_status' = Exited(0)]_vars
    /\ (pc = "conv_returned" /\ ~IsAbandoned(conv_result, conv_history))
          ~> (pc = "exited" \/ (pc = "listen" /\ Len(submitted) = 1))

\* The image search ran and gave no file, the audio synthesis gave none
\* either, and the note was submitted with both media slots empty.
C12_Witness ==
    /\ pc = "listen"
    /\ "image_fetch" \in effects
    /\ Attempted = {}
    /\ Len(submitted) = 1
    /\ submitted[1].request.params.note.fields["Image"] = <<>>
    /\ submitted[1].request.params.note.fields["Audio Example"] = <<>>

\* The addNote answer carried a non-null error.
AddNoteFailed(entry) == ~entry.resp.error.isNone

SlotsDefined(f) ==
    /\ DOMAIN f = FieldNames
    /\ \A k \in FieldNames :
          /\ DOMAIN f[k] = 1..Len(f[k])
          /\ ~Contains(f[k], Format(None))

\* C14: the field mapping main builds, and every mapping handed to addNote in
\* either flow, has a string in each of its eight slots, and no slot's text is
\* the rendering of a null value (the target word the IMAGE_PROMPT flow leaves
\* unset, a media file that was not produced).
C14_EverySlotDefined ==
    /\ fields # <<>> => SlotsDefined(fields)
    /\ \A f \in SubmittedFields : SlotsDefined(f)

\* A note built without a target word, an English word or media was
\* submitted: its front and back are the bare styling container.
C14_Witness ==
    /\ pc = "listen"
    /\ Len(submitted) = 1
    /\ LET f == submitted[1].request.params.note.fields
       IN /\ f["Back[SWE]"] = Wrapped(<<>>)
          /\ f["Front[ENG]"] = Wrapped(<<>>)
          /\ f["Image"] = <<>>
          /\ f["Audio Example"] = <<>>

-----------------------------------------------------------------------------
(* Card assembly *)

\* The slots that card assembly fills from the sentence, the target word, the
\* English word and the translation alone.
AssembledSlots == FieldNames \ {"Image", "Audio Example"}

\* The assembled slots are what the four inputs determine; without a target
\* word that occurs in the sentence, Examples is the sentence in its styling
\* container and carries no highlight markup.
AssembledFromInputs(f, jp, tw, ew, tr) ==
    /\ f["Front[ENG]"] = Wrapped(ew)
    /\ f["Back[SWE]"] =
          Wrapped(IF Truthy(tw) THEN <<BACK_OPEN>> \o tw.val \o <<HL_CLOSE>> ELSE <<>>)
    /\ f["Example English"] = Wrapped(tr)
    /\ f["Audio"] = <<>>
    /\ f["Grammar"] = <<>>
    /\ Unmarked(f["Examples"]) = Wrapped(jp)
    /\ (tw.isNone \/ tw.val = <<>> \/ CountOccurrences(jp, tw.val) = 0) =>
          /\ f["Examples"] = Wrapped(jp)
          /\ CountTok(f["Examples"], HL_OPEN) = 0
          /\ CountTok(f["Examples"], HL_CLOSE) = 0

\* C15: the assembled slots depend on the four inputs only, whatever the
\* conversation and the media steps did, and stay as assembled until the note
\* is submitted; when the target word is unset, empty or not a literal
\* substring of the sentence, Examples is the unmarked sentence in the styling
\* container.
C15_AssemblyPureAndUnmarked ==
    /\ [](fields # <<>> =>
            AssembledFromInputs(fields, jp_sentence, target_word, english_word,
                                eng_translation))
    /\ [][(fields # <<>> /\ fields' # <<>>) =>
            \A k \in AssembledSlots : fields'[k] = fields[k]]_vars
    /\ [][(pc = "add_note" /\ Len(submitted') > Len(submitted)) =>
            AssembledFromInputs(submitted'[Len(submitted')].request.params.note.fields,
                                jp_sentence, target_word, english_word,
                                eng_translation)]_vars

\* The target word given does not occur in the sentence; the card is built
\* and Examples is the sentence in its container.
C15_Witness ==
    /\ fields # <<>>
    /\ jp_sentence = <<"a", "b", "a">>
    /\ target_word = Str(<<"c">>)
    /\ fields["Examples"] = Wrapped(jp_sentence)

-----------------------------------------------------------------------------
(* Duplicate suppression *)

\* A sink that honours the option: the collection after an addNote request.
\* The note is created unless duplicates are not allowed and a note with the
\* same fields is there already.
HonouringSink(deck, request) ==
    LET note == request.params.note
    IN IF note.options.allowDuplicate \/ \A i \in DOMAIN deck : deck[i] # note.fields
       THEN Append(deck, note.fields)
       ELSE deck

\* How many notes of the collection have these fields
Entries(deck, f) == Cardinality({i \in DOMAIN deck : deck[i] = f})

\* Some other note, as an earlier clipboard event may have left it in the
\* collection.
OtherNote == BuildFields(<<"x">>, None, <<>>, <<>>)

\* C16: every addNote request carries options.allowDuplicate = false, so a
\* sink that honours the option, given the same request twice, with or
\* without other notes in between, holds at most one note with these fields;
\* and no clipboard event makes a second addNote request, after a failure or
\* otherwise.
C16_DuplicatesSuppressed ==
    /\ \A j \in DOMAIN submitted :
          LET request == submitted[j].request
              f == request.params.note.fields
          IN /\ request.action = "addNote"
             /\ request.params.note.options.allowDuplicate = FALSE
             /\ \A deck \in {<<>>, <<f>>, <<OtherNote>>, <<OtherNote, f>>} :
                   LET once == HonouringSink(deck, request)
                       between == HonouringSink(once, AddNoteRequest(OtherNote, NoteTags))
                   IN /\ Entries(HonouringSink(once, request), f) = 1
                      /\ Entries(HonouringSink(between, request), f) = 1
    /\ Len(submitted) <= 1
    /\ submitted # <<>> => pc = "listen"

\* The sink refused a note as a duplicate; main listens again and the event
\* made no other request.
C16_Witness ==
    /\ pc = "listen"
    /\ Len(submitted) = 1
    /\ submitted[1].request.params.note.options.allowDuplicate = FALSE
    /\ submitted[1].resp.error =
          Str(<<"cannot create note because it is a duplicate">>)
    /\ ~submitted[1].ok

-----------------------------------------------------------------------------
(* Exit *)

\* C17 as stated: the session loop ends only by the operator's interrupt,
\* with a clean exit; in particular no user answer and no end of user input
\* ends it, so the process never exits with a non-zero status on them.
C17_OnlyInterruptEnds == pc = "exited" => exit_status = Exited(0)

-----------------------------------------------------------------------------
(* The translation *)

\* The step that submits the note.
Submits == pc = "add_note" /\ Len(submitted') > Len(submitted)
\* The Example English slot of the note that step submits.
SubmittedTranslation ==
    submitted'[Len(submitted')].request.params.note.fields["Example English"]
\* The user was asked for a translation during this clipboard event.
TranslationAsked == "translation_prompt" \in effects
\* What an answer to the translation prompt leaves in eng_translation
TranslationAnswers == { Strip(l) : l \in TranslationLines }

\* C18 as stated: the submitted Example English slot holds the clipboard's
\* second line when there is one, and the user is then not asked; when there
\* is none, in either flow, the user has been asked and the slot holds the
\* translation the user supplied.
C18_TranslationAutoOrUserSupplied ==
    [][Submits =>
          IF eng_sentence_auto # <<>>
          THEN /\ SubmittedTranslation = Wrapped(eng_sentence_auto)
               /\ ~TranslationAsked
          ELSE /\ TranslationAsked
               /\ SubmittedTranslation = Wrapped(eng_translation)
               /\ eng_translation \in TranslationAnswers]_vars

\* C18 amended: as stated when the clipboard has a second line, and as
\* stated, the answer stripped of surrounding whitespace, when it has none
\* and the flow is not the IMAGE_PROMPT one; in the IMAGE_PROMPT flow
\* without a second line the user is not asked and the slot holds the bare
\* styling container.
C18_TranslationAutoElseAskedOrEmpty ==
    [][Submits =>
          IF eng_sentence_auto # <<>>
          THEN /\ SubmittedTranslation = Wrapped(eng_sentence_auto)
               /\ ~TranslationAsked
          ELSE IF conv_result = Str(IMAGE_PROMPT)
          THEN /\ ~TranslationAsked
               /\ SubmittedTranslation = Wrapped(<<>>)
          ELSE /\ TranslationAsked
               /\ SubmittedTranslation = Wrapped(eng_translation)
               /\ eng_translation \in TranslationAnswers]_vars

\* The IMAGE_PROMPT flow, for a clipboard text without a second line, is
\* about to submit a note whose translation is empty.
C18_Witness ==
    /\ pc = "add_note"
    /\ conv_result = Str(IMAGE_PROMPT)
    /\ eng_sentence_auto = <<>>
    /\ ~TranslationAsked
    /\ fields["Example English"] = Wrapped(<<>>)

-----------------------------------------------------------------------------
(* The request to the language model *)

LengthCaps == {"max_tokens", "max_completion_tokens"}

\* The model identifier begins with the letter o, in either case.
OSeries == model # <<>> /\ model[1] \in {"o", "O"}

\* The payload has the shape of the configured model's family.
PayloadShaped ==
    /\ payload["model"] = model
    /\ Cardinality(DOMAIN payload \cap LengthCaps) = 1
    /\ IF OSeries
       THEN /\ DOMAIN payload = {"model", "messages", "max_completion_tokens"}
            /\ payload["max_completion_tokens"] = 800
       ELSE /\ DOMAIN payload = {"model", "messages", "temperature", "max_tokens"}
            /\ payload["temperature"] = 0
            /\ payload["max_tokens"] = 800

-----------------------------------------------------------------------------
(* Blank lines at the main prompt *)

\* The text is empty or white space only.
IsBlank(s) == \A i \in 1..Len(s) : s[i] \in {" ", "\t", "\n"}

\* The loop body runs for a line that was blank.
BlankLineStep == pc = "conv_dispatch" /\ IsBlank(user_input) /\ pc' # "exited"

\* C20: a line that is empty or white space only, entered at the main
\* prompt, takes the loop back to the prompt and changes nothing else: the
\* history is as it was, no model call is made, no result is returned.
\* Reading a line changes nothing but the line read, and no blank text is
\* ever a user turn or on its way to the model.
C20_BlankLineChangesNothing ==
    /\ [][BlankLineStep =>
            /\ pc' = "conv_prompt"
            /\ UNCHANGED <<exit_status, cfgVars, last, startup, evVars, convVars, resVars,
                           cardVars, sinkVars, effects>>]_vars
    /\ [][(pc = "conv_prompt" /\ pc' = "conv_dispatch") =>
            UNCHANGED <<history, sent, payload, content, calls, resVars>>]_vars
    /\ [](pc = "model_call" => ~IsBlank(user_input))
    /\ [](\A i \in 1..Len(history) :
            history[i].role = "user" => ~IsBlank(history[i].content))

\* A blank line was read and handled: the conversation is at its prompt again
\* with the two turns it began with and no call made.
C20_Witness ==
    /\ pc = "conv_prompt"
    /\ "input" \in effects
    /\ user_input = <<>>
    /\ Len(history) = 2
    /\ calls = 0
    /\ conv_result = None

-----------------------------------------------------------------------------
(* The order of turns *)

\* After the system entry the turns go assistant, user, assistant, ...
Alternates(h) ==
    \A i \in 2..Len(h) :
        h[i].role = IF i % 2 = 0 THEN "assistant" ELSE "user"

\* C21: every history start_conversation sends to the model or returns has,
\* after its system entry, strictly alternating turns beginning with the
\* assistant's invitation, so never two user turns in a row; and a history
\* sent to the model ends with the one unanswered user question.
C21_TurnsAlternate ==
    /\ sent # <<>> =>
          /\ Alternates(sent)
          /\ sent[Len(sent)].role = "user"
    /\ (pc = "conv_returned" /\ ~conv_history.isNone) => Alternates(conv_history.val)

\* The history begins with the system entry and the assistant's invitation;
\* after them come user and assistant turns, each assistant turn right after
\* a user turn.
AnswersFollowQuestions(h) ==
    /\ Len(h) >= 2
    /\ h[1].role = "system"
    /\ h[2].role = "assistant"
    /\ \A i \in 3..Len(h) :
          /\ h[i].role \in {"user", "assistant"}
          /\ h[i].role = "assistant" => h[i - 1].role = "user"

\* C21 amended: every history sent to the model or returned begins with the
\* system entry and the invitation, never has two assistant turns in a row,
\* and, when sent, ends with the user's latest question. User turns may
\* follow one another: a question whose call failed or whose answer was empty
\* stays in the history and the next question is appended after it.
C21_AnswersFollowQuestions ==
    /\ sent # <<>> =>
          /\ AnswersFollowQuestions(sent)
          /\ sent[Len(sent)].role = "user"
    /\ pc = "model_call" =>
          /\ AnswersFollowQuestions(history)
          /\ history[Len(history)] = Turn("user", user_input)
    /\ (pc = "conv_returned" /\ ~conv_history.isNone) =>
          AnswersFollowQuestions(conv_history.val)

\* A question got an empty answer and the next one was sent right after it:
\* the messages end with two user turns.
C21_Witness ==
    /\ Len(sent) = 4
    /\ sent[3].role = "user"
    /\ sent[4].role = "user"
    /\ retry = <<>>

-----------------------------------------------------------------------------
(* The IMAGE_PROMPT flow *)

\* The conversation of the current event ended with IMAGE_PROMPT.
ImagePromptOutcome == conv_result = Str(IMAGE_PROMPT)

\* Where main stands in that flow: the one prompt, the media steps, the
\* submission.
ImageFlowPcs ==
    {"ask_image_only", "image_fetch", "audio_gen", "store_image", "store_audio",
     "add_note"}

\* The note submitted at the end of that flow.
ImageFlowSubmission ==
    (ImagePromptOutcome /\ Submits) =>
        /\ Len(submitted') = 1
        /\ LET f == submitted'[1].request.params.note.fields
           IN /\ f["Front[ENG]"] = Wrapped(<<>>)
              /\ f["Back[SWE]"] = Wrapped(<<>>)
              /\ f["Examples"] = Wrapped(jp_sentence)
              /\ CountTok(f["Examples"], HL_OPEN) = 0

\* C22: after an IMAGE_PROMPT outcome main asks for the image idea only,
\* never stands in the conversation or at a metadata prompt again before the
\* submission, collects no target word and no English meaning, and goes on
\* to submit exactly one note, whose front and back are the empty styling
\* container and whose Examples is the unmarked sentence; only the
\* operator's interrupt ends the flow earlier.
C22_ImagePromptSubmitsBareNote ==
    /\ [](ImagePromptOutcome =>
            /\ pc \in {"conv_returned"} \cup ImageFlowPcs
            /\ ~Truthy(target_word)
            /\ english_word = <<>>
            /\ ~TranslationAsked)
    /\ [][(ImagePromptOutcome /\ pc = "conv_returned" /\ pc' # "exited")
            => pc' = "ask_image_only"]_vars
    /\ [][(ImagePromptOutcome /\ pc' = "listen") => Submits]_vars
    /\ [][ImageFlowSubmission]_vars
    /\ (ImagePromptOutcome /\ pc = "conv_returned")
          ~> (pc = "exited" \/ (pc = "listen" /\ Len(submitted) = 1))

\* After /image, the image idea asked and an image uploaded, the note is
\* built with the bare container in front and back and is about to be
\* submitted.
C22_Witness ==
    /\ ImagePromptOutcome
    /\ pc = "add_note"
    /\ "field_prompt" \in effects
    /\ fields["Front[ENG]"] = Wrapped(<<>>)
    /\ fields["Back[SWE]"] = Wrapped(<<>>)
    /\ fields["Examples"] = Wrapped(jp_sentence)
    /\ fields["Image"] # <<>>

-----------------------------------------------------------------------------
(* The clipboard listener *)

\* The listener yields a text to main.
Yields == pc = "listen" /\ pc' = "event"

\* Where main stands while it works on a yielded text.
EventPcs == {"event", "conv_returned"} \cup ConvPcs \cup FlowPcs

\* What holds of every yield and of every turn of the loop without one; the
\* text main works on is the latest one yielded.
ListenerYieldsNewText ==
    /\ [][Yields =>
            /\ Truthy(clipboard_text')
            /\ clipboard_text' # last
            /\ last' = clipboard_text']_vars
    /\ [][last' # last => Yields]_vars
    /\ [][clipboard_text' # clipboard_text => (Yields \/ clipboard_text'.isNone)]_vars
    /\ [](pc \in EventPcs => (Truthy(clipboard_text) /\ clipboard_text = last))

\* C23 as stated: a text is yielded only when it is non-empty and differs
\* from the recorded one, which it then becomes; a turn of the loop that
\* yields nothing, a failed read included, leaves the recorded text as it
\* was; the content the clipboard held at startup is not yielded while it is
\* still there; and no text is pulled while main works on an event.
C23_NeverYieldsStartupContent ==
    /\ ListenerYieldsNewText
    /\ [][Yields => clipboard_text' # startup]_vars

\* The part of C23 the listener keeps: all of the above, the startup content
\* being yielded while still on the clipboard only when no text is recorded,
\* that is when the read at construction raised.
C23_YieldsStartupContentOnlyUnrecorded ==
    /\ ListenerYieldsNewText
    /\ [][(Yields /\ clipboard_text' = startup) => last.isNone]_vars

\* A sentence was yielded: it is recorded and main has it in hand.
C23_Witness ==
    /\ pc = "event"
    /\ clipboard_text = Str(<<"a", "b", "a">>)
    /\ last = clipboard_text
    /\ effects = {}

====
